---- MODULE Spec2Model ----
(***************************************************************************)
(* Face tracking pipeline of src/hooks/useFacePipeline.ts: the ROI         *)
(* calculator, the coordinate remapper, the polygon sampler and the        *)
(* two-stage coordinator (faceDetection.onResults -> faceMesh.onResults)   *)
(* with its status signal, rate limiter and overlay; and the camera hook   *)
(* of src/hooks/useCamera.ts (start, stop and the cleanup effect).         *)
(*                                                                         *)
(* JavaScript numbers are modelled as exact rationals <<n, d>> with d > 0, *)
(* kept in lowest terms; Math.floor is the floor of the rational.          *)
(***************************************************************************)
EXTENDS Integers, Sequences, FiniteSets, TLC

VARIABLES
    cam,            \* the useCamera hook: its React state, the state of the last render,
                    \* the getUserMedia requests in flight and the tracks acquired
    geom,           \* the call of the ROI calculator / remapper / sampler under test
    mounted,        \* the pipeline effect is mounted (detectionRef.current set)
    stream,         \* the stream prop
    cameraOn,       \* the Camera of the stream effect is started
    camBusy,        \* that Camera awaits the promise of its onFrame
    frameCount,     \* frames handed to stage-1 so far
    detQueue,       \* faceDetection.send calls in flight
    meshQueue,      \* faceMesh.send calls in flight
    rectRef, roiRef, landmarksRef, frameSizeRef,
    snapshot,       \* content of frameCanvasRef
    statusRef, lastLogRef,
    clock,          \* last reading of performance.now()
    delivered,      \* the last messages handed to onStatusChange, newest last
    tags,           \* the frame that frameSize / rect / roi come from, and the frame
                    \* whose crop the landmarks come from
    lastOp,         \* the last handler that ran, with its input, outcome and render
    meshTimes,      \* clock readings of the stage-2 completions that carried landmarks
    sampleTimes     \* clock readings at which the region sampling pass ran

vars == <<cam, geom, mounted, stream, cameraOn, camBusy, frameCount, detQueue, meshQueue,
          rectRef, roiRef, landmarksRef, frameSizeRef, snapshot, statusRef,
          lastLogRef, clock, delivered, tags, lastOp, meshTimes, sampleTimes>>

\* a missing object (null or undefined) and an undefined number; a rational is a pair
Null == <<>>
Undefined == <<"undefined">>

----------------------------------------------------------------------------
(* Numbers *)

Abs(i) == IF i < 0 THEN -i ELSE i

RECURSIVE Gcd(_, _)
Gcd(a, b) == IF b = 0 THEN a ELSE Gcd(b, a % b)

\* the rational n/d in lowest terms with a positive denominator
Rat(n, d) ==
    LET s == IF d < 0 THEN -1 ELSE 1
        g == Gcd(Abs(n), Abs(d))
    IN  <<(s * n) \div g, (s * d) \div g>>

Num(i) == <<i, 1>>
\* the operations take the values of their operands once: p is <<a[1], a[2], b[1], b[2]>>
RAdd(a, b) ==
    CHOOSE r \in {Rat(p[1] * p[4] + p[3] * p[2], p[2] * p[4]) : p \in {a \o b}} : TRUE
RSub(a, b) ==
    CHOOSE r \in {Rat(p[1] * p[4] - p[3] * p[2], p[2] * p[4]) : p \in {a \o b}} : TRUE
RMul(a, b) ==
    CHOOSE r \in {Rat(p[1] * p[3], p[2] * p[4]) : p \in {a \o b}} : TRUE
RDiv(a, b) ==
    CHOOSE r \in {Rat(p[1] * p[4], p[2] * p[3]) : p \in {a \o b}} : TRUE
RLt(a, b) == a[1] * b[2] < b[1] * a[2]
RLe(a, b) == a[1] * b[2] <= b[1] * a[2]
RMin(a, b) ==
    CHOOSE r \in {IF p[3] * p[2] < p[1] * p[4] THEN <<p[3], p[4]>> ELSE <<p[1], p[2]>> :
                    p \in {a \o b}} : TRUE
RMax(a, b) ==
    CHOOSE r \in {IF p[1] * p[4] < p[3] * p[2] THEN <<p[3], p[4]>> ELSE <<p[1], p[2]>> :
                    p \in {a \o b}} : TRUE
\* Math.floor, as an integer
Floor(a) == a[1] \div a[2]
\* !value of a number: zero is falsy
Falsy(a) == a[1] = 0

----------------------------------------------------------------------------
(* Pure geometry *)

ROI_PADDING == Rat(18, 100)
LOG_INTERVAL_MS == 1000

clamp(value, min, max) == RMin(RMax(value, min), max)

\* a ?? b
Nullish(a, b) == IF a = Undefined \/ a = Null THEN b ELSE a

\* getRelativeBox that gives up only when both width and height are zero
getRelativeBox_bothZero(detection) ==
    LET box == detection.relativeBoundingBox IN
    IF box = Null THEN Null
    ELSE LET xMin == Nullish(box.xMin, Num(0))
             yMin == Nullish(box.yMin, Num(0))
             width == Nullish(box.width, Num(0))
             height == Nullish(box.height, Num(0))
         IN  IF Falsy(width) /\ Falsy(height) THEN Null
             ELSE [xCenter |-> RAdd(xMin, RDiv(width, Num(2))),
                   yCenter |-> RAdd(yMin, RDiv(height, Num(2))),
                   width |-> width, height |-> height]

\* getRelativeBox that takes the box's corner for its centre
getRelativeBox_cornerAsCentre(detection) ==
    LET box == detection.relativeBoundingBox IN
    IF box = Null THEN Null
    ELSE LET xMin == Nullish(box.xMin, Num(0))
             yMin == Nullish(box.yMin, Num(0))
             width == Nullish(box.width, Num(0))
             height == Nullish(box.height, Num(0))
         IN  IF Falsy(width) \/ Falsy(height) THEN Null
             ELSE [xCenter |-> xMin, yCenter |-> yMin, width |-> width, height |-> height]

getRelativeBox(detection) ==
    LET box == detection.relativeBoundingBox IN
    IF box = Null THEN Null
    ELSE LET xMin == Nullish(box.xMin, Num(0))
             yMin == Nullish(box.yMin, Num(0))
             width == Nullish(box.width, Num(0))
             height == Nullish(box.height, Num(0))
         IN  IF Falsy(width) \/ Falsy(height) THEN Null
             ELSE [xCenter |-> RAdd(xMin, RDiv(width, Num(2))),
                   yCenter |-> RAdd(yMin, RDiv(height, Num(2))),
                   width |-> width, height |-> height]

Max(i, j) == IF i < j THEN j ELSE i

\* toPixelRect with the far edges left unclamped
toPixelRect_unclampedFar(rect, imageWidth, imageHeight, padding) ==
    LET width == RMul(rect.width, Num(imageWidth))
        height == RMul(rect.height, Num(imageHeight))
        centerX == RMul(rect.xCenter, Num(imageWidth))
        centerY == RMul(rect.yCenter, Num(imageHeight))
        paddedWidth == RMul(width, RAdd(Num(1), padding))
        paddedHeight == RMul(height, RAdd(Num(1), padding))
        x == clamp(RSub(centerX, RDiv(paddedWidth, Num(2))), Num(0), Num(imageWidth))
        y == clamp(RSub(centerY, RDiv(paddedHeight, Num(2))), Num(0), Num(imageHeight))
        right == RAdd(centerX, RDiv(paddedWidth, Num(2)))
        bottom == RAdd(centerY, RDiv(paddedHeight, Num(2)))
    IN  [x |-> Floor(x), y |-> Floor(y),
         width |-> Max(1, Floor(RSub(right, x))),
         height |-> Max(1, Floor(RSub(bottom, y)))]

\* toPixelRect that measures x and y from the centre by the full size, not half of it
toPixelRect_fullSizeOffset(rect, imageWidth, imageHeight, padding) ==
    LET width == RMul(rect.width, Num(imageWidth))
        height == RMul(rect.height, Num(imageHeight))
        centerX == RMul(rect.xCenter, Num(imageWidth))
        centerY == RMul(rect.yCenter, Num(imageHeight))
        paddedWidth == RMul(width, RAdd(Num(1), padding))
        paddedHeight == RMul(height, RAdd(Num(1), padding))
        x == clamp(RSub(centerX, paddedWidth), Num(0), Num(imageWidth))
        y == clamp(RSub(centerY, paddedHeight), Num(0), Num(imageHeight))
        right == clamp(RAdd(centerX, RDiv(paddedWidth, Num(2))), Num(0), Num(imageWidth))
        bottom == clamp(RAdd(centerY, RDiv(paddedHeight, Num(2))), Num(0), Num(imageHeight))
    IN  [x |-> Floor(x), y |-> Floor(y),
         width |-> Max(1, Floor(RSub(right, x))),
         height |-> Max(1, Floor(RSub(bottom, y)))]

\* toPixelRect that clamps centre-wise: a box that leaves the frame is shifted back into it
toPixelRect_shifted(rect, imageWidth, imageHeight, padding) ==
    LET width == RMul(rect.width, Num(imageWidth))
        height == RMul(rect.height, Num(imageHeight))
        centerX == RMul(rect.xCenter, Num(imageWidth))
        centerY == RMul(rect.yCenter, Num(imageHeight))
        paddedWidth == RMul(width, RAdd(Num(1), padding))
        paddedHeight == RMul(height, RAdd(Num(1), padding))
        x == clamp(RSub(centerX, RDiv(paddedWidth, Num(2))), Num(0),
                   RMax(Num(0), RSub(Num(imageWidth), paddedWidth)))
        y == clamp(RSub(centerY, RDiv(paddedHeight, Num(2))), Num(0),
                   RMax(Num(0), RSub(Num(imageHeight), paddedHeight)))
        right == clamp(RAdd(x, paddedWidth), Num(0), Num(imageWidth))
        bottom == clamp(RAdd(y, paddedHeight), Num(0), Num(imageHeight))
    IN  [x |-> Floor(x), y |-> Floor(y),
         width |-> Max(1, Floor(RSub(right, x))),
         height |-> Max(1, Floor(RSub(bottom, y)))]

\* toPixelRect without the minimum of one pixel for width and height
toPixelRect_noMinimum(rect, imageWidth, imageHeight, padding) ==
    LET width == RMul(rect.width, Num(imageWidth))
        height == RMul(rect.height, Num(imageHeight))
        centerX == RMul(rect.xCenter, Num(imageWidth))
        centerY == RMul(rect.yCenter, Num(imageHeight))
        paddedWidth == RMul(width, RAdd(Num(1), padding))
        paddedHeight == RMul(height, RAdd(Num(1), padding))
        x == clamp(RSub(centerX, RDiv(paddedWidth, Num(2))), Num(0), Num(imageWidth))
        y == clamp(RSub(centerY, RDiv(paddedHeight, Num(2))), Num(0), Num(imageHeight))
        right == clamp(RAdd(centerX, RDiv(paddedWidth, Num(2))), Num(0), Num(imageWidth))
        bottom == clamp(RAdd(centerY, RDiv(paddedHeight, Num(2))), Num(0), Num(imageHeight))
    IN  [x |-> Floor(x), y |-> Floor(y),
         width |-> Floor(RSub(right, x)),
         height |-> Floor(RSub(bottom, y))]

toPixelRect(rect, imageWidth, imageHeight, padding) ==
    LET width == RMul(rect.width, Num(imageWidth))
        height == RMul(rect.height, Num(imageHeight))
        centerX == RMul(rect.xCenter, Num(imageWidth))
        centerY == RMul(rect.yCenter, Num(imageHeight))
        paddedWidth == RMul(width, RAdd(Num(1), padding))
        paddedHeight == RMul(height, RAdd(Num(1), padding))
        x == clamp(RSub(centerX, RDiv(paddedWidth, Num(2))), Num(0), Num(imageWidth))
        y == clamp(RSub(centerY, RDiv(paddedHeight, Num(2))), Num(0), Num(imageHeight))
        right == clamp(RAdd(centerX, RDiv(paddedWidth, Num(2))), Num(0), Num(imageWidth))
        bottom == clamp(RAdd(centerY, RDiv(paddedHeight, Num(2))), Num(0), Num(imageHeight))
    IN  [x |-> Floor(x), y |-> Floor(y),
         width |-> Max(1, Floor(RSub(right, x))),
         height |-> Max(1, Floor(RSub(bottom, y)))]

\* remapLandmark whose y is scaled by the ROI's width
remapLandmark_widthForY(landmark, roi, imageWidth, imageHeight) ==
    [x |-> RDiv(RAdd(Num(roi.x), RMul(landmark.x, Num(roi.width))), Num(imageWidth)),
     y |-> RDiv(RAdd(Num(roi.y), RMul(landmark.y, Num(roi.width))), Num(imageHeight)),
     z |-> landmark.z, visibility |-> landmark.visibility, presence |-> landmark.presence]

remapLandmark(landmark, roi, imageWidth, imageHeight) ==
    [x |-> RDiv(RAdd(Num(roi.x), RMul(landmark.x, Num(roi.width))), Num(imageWidth)),
     y |-> RDiv(RAdd(Num(roi.y), RMul(landmark.y, Num(roi.height))), Num(imageHeight)),
     z |-> landmark.z, visibility |-> landmark.visibility, presence |-> landmark.presence]

\* toNormalizedLandmarks that returns the remapped landmarks last to first
toNormalizedLandmarks_reversed(landmarks, roi, imageWidth, imageHeight) ==
    [i \in DOMAIN landmarks |->
        remapLandmark(landmarks[Len(landmarks) + 1 - i], roi, imageWidth, imageHeight)]

toNormalizedLandmarks(landmarks, roi, imageWidth, imageHeight) ==
    [i \in DOMAIN landmarks |-> remapLandmark(landmarks[i], roi, imageWidth, imageHeight)]

----------------------------------------------------------------------------
(* The polygon sampler *)

\* Math.ceil, as an integer
Ceil(a) == -((-a[1]) \div a[2])

ClampInt(value, min, max) == IF value < min THEN min ELSE IF value > max THEN max ELSE value

toPixelPoint(landmark, width, height) ==
    [x |-> RMul(landmark.x, Num(width)), y |-> RMul(landmark.y, Num(height))]

\* the edge test that also counts an edge whose upper end is level with the point
edgeIntersects_closed(x, y, pi, pj) ==
    /\ pi.y # pj.y
    /\ (RLe(y, pi.y) /\ RLe(pj.y, y)) \/ (RLe(y, pj.y) /\ RLe(pi.y, y))
    /\ RLt(x, RAdd(RDiv(RMul(RSub(pj.x, pi.x), RSub(y, pi.y)), RSub(pj.y, pi.y)), pi.x))

\* intersect = yi > y !== yj > y && x < ((xj - xi) * (y - yi)) / (yj - yi) + xi
edgeIntersects(x, y, pi, pj) ==
    /\ RLt(y, pi.y) # RLt(y, pj.y)
    /\ RLt(x, RAdd(RDiv(RMul(RSub(pj.x, pi.x), RSub(y, pi.y)), RSub(pj.y, pi.y)), pi.x))

\* the loop of pointInPolygon from edge i on (j is the vertex before i, the last one
\* for the first)
RECURSIVE pointInPolygonFrom(_, _, _, _, _)
pointInPolygonFrom(x, y, polygon, i, inside) ==
    IF i > Len(polygon) THEN inside
    ELSE LET j == IF i = 1 THEN Len(polygon) ELSE i - 1 IN
         pointInPolygonFrom(x, y, polygon, i + 1,
                            IF edgeIntersects(x, y, polygon[i], polygon[j])
                            THEN ~inside ELSE inside)

pointInPolygon(x, y, polygon) == pointInPolygonFrom(x, y, polygon, 1, FALSE)

\* the polygon.forEach of sampleRegionPixels from point i on
RECURSIVE extentFrom(_, _, _)
extentFrom(polygon, i, acc) ==
    IF i > Len(polygon) THEN acc
    ELSE extentFrom(polygon, i + 1,
                    [minX |-> RMin(acc.minX, polygon[i].x), minY |-> RMin(acc.minY, polygon[i].y),
                     maxX |-> RMax(acc.maxX, polygon[i].x), maxY |-> RMax(acc.maxY, polygon[i].y)])

\* the scanned box without the clamp to the frame
scanBox_unclamped(imageData, polygon) ==
    LET e == extentFrom(polygon, 1, [minX |-> Num(imageData.width), minY |-> Num(imageData.height),
                                     maxX |-> Num(0), maxY |-> Num(0)])
    IN  [minX |-> Floor(e.minX), minY |-> Floor(e.minY),
         maxX |-> Ceil(e.maxX), maxY |-> Ceil(e.maxY)]

\* minX, minY, maxX, maxY of sampleRegionPixels when its loops start
scanBox(imageData, polygon) ==
    LET e == extentFrom(polygon, 1, [minX |-> Num(imageData.width), minY |-> Num(imageData.height),
                                     maxX |-> Num(0), maxY |-> Num(0)])
    IN  [minX |-> ClampInt(Floor(e.minX), 0, imageData.width - 1),
         minY |-> ClampInt(Floor(e.minY), 0, imageData.height - 1),
         maxX |-> ClampInt(Ceil(e.maxX), 0, imageData.width - 1),
         maxY |-> ClampInt(Ceil(e.maxY), 0, imageData.height - 1)]

\* the number of passes of for (v = min; v <= max; v += step)
Passes(min, max, step) == IF max < min THEN 0 ELSE (max - min) \div step + 1

\* the grid points visited column by column: x in the outer loop, y in the inner loop
scannedPoints_columnMajor(imageData, polygon, step) ==
    LET b == scanBox(imageData, polygon)
        nX == Passes(b.minX, b.maxX, step)
        nY == Passes(b.minY, b.maxY, step)
    IN  [k \in 1 .. nX * nY |->
            [x |-> b.minX + ((k - 1) \div nY) * step, y |-> b.minY + ((k - 1) % nY) * step]]

\* the grid points the two loops of sampleRegionPixels visit, in scan order
scannedPoints(imageData, polygon, step) ==
    LET b == scanBox(imageData, polygon)
        nX == Passes(b.minX, b.maxX, step)
        nY == Passes(b.minY, b.maxY, step)
    IN  [k \in 1 .. nX * nY |->
            [x |-> b.minX + ((k - 1) % nX) * step, y |-> b.minY + ((k - 1) \div nX) * step]]

\* the grid points that are not skipped by continue, in scan order
sampledPoints(imageData, polygon, step) ==
    LET Contained(p) == pointInPolygon(Num(p.x), Num(p.y), polygon)
    IN  SelectSeq(scannedPoints(imageData, polygon, step), Contained)

\* imageData.data[index]: a byte of the RGBA buffer of width * height * 4 bytes, -1 for
\* the undefined of an index outside it
dataAt(imageData, index) ==
    IF 0 <= index /\ index < imageData.width * imageData.height * 4
    THEN (imageData.seed * index + 5) % 256
    ELSE -1

\* a number stored into a Uint8ClampedArray (undefined is stored as 0)
Uint8Clamped(v) == ClampInt(v, 0, 255)

DEFAULT_STEP == 6

\* the Uint8ClampedArray that sampleRegionPixels returns: four channels per sampled point
sampleRegionPixels(imageData, polygon, step) ==
    LET points == sampledPoints(imageData, polygon, step) IN
    [m \in 1 .. 4 * Len(points) |->
        LET p == points[(m - 1) \div 4 + 1]
            index == (p.y * imageData.width + p.x) * 4
        IN  Uint8Clamped(dataAt(imageData, index + ((m - 1) % 4)))]

\* region.polygons.reduce(...) from polygon i on: the sample buffers of the polygons of
\* three or more points
RECURSIVE regionPixelsFrom(_, _, _, _, _)
regionPixelsFrom(imageData, landmarks, polygons, i, acc) ==
    IF i > Len(polygons) THEN acc
    ELSE LET points == [k \in DOMAIN polygons[i] |->
                           toPixelPoint(landmarks[polygons[i][k]], imageData.width,
                                        imageData.height)]
         IN  regionPixelsFrom(imageData, landmarks, polygons, i + 1,
                              IF Len(points) < 3 THEN acc
                              ELSE Append(acc, sampleRegionPixels(imageData, points,
                                                                  DEFAULT_STEP)))

RECURSIVE SumLengths(_, _)
SumLengths(chunks, i) ==
    IF i > Len(chunks) THEN 0 ELSE Len(chunks[i]) + SumLengths(chunks, i + 1)

\* the merge that writes every chunk at offset 0
RECURSIVE mergeChunks_noOffset(_, _, _, _)
mergeChunks_noOffset(chunks, i, offset, merged) ==
    IF i > Len(chunks) THEN merged
    ELSE mergeChunks_noOffset(chunks, i + 1, offset,
            [k \in DOMAIN merged |->
                IF offset < k /\ k <= offset + Len(chunks[i]) THEN chunks[i][k - offset]
                ELSE merged[k]])

\* regionPixels.forEach((chunk) => { merged.set(chunk, offset); offset += chunk.length })
\* from chunk i on
RECURSIVE mergeChunks(_, _, _, _)
mergeChunks(chunks, i, offset, merged) ==
    IF i > Len(chunks) THEN merged
    ELSE mergeChunks(chunks, i + 1, offset + Len(chunks[i]),
            [k \in DOMAIN merged |->
                IF offset < k /\ k <= offset + Len(chunks[i]) THEN chunks[i][k - offset]
                ELSE merged[k]])

\* the buffer handed to analyzePigmentation and analyzeWrinkles for a region
mergedRegionPixels(imageData, landmarks, region) ==
    LET regionPixels == regionPixelsFrom(imageData, landmarks, region.polygons, 1, <<>>)
        zeroed == [k \in 1 .. SumLengths(regionPixels, 1) |-> 0]
    IN  mergeChunks(regionPixels, 1, 0, zeroed)

----------------------------------------------------------------------------
(* Inputs of the geometry specification *)

GridN == 4

Frame(w, h) == [width |-> w, height |-> h]
Landmark(x, y, z) == [x |-> x, y |-> y, z |-> z, visibility |-> Undefined, presence |-> Undefined]

ExampleRect == [xCenter |-> Rat(1, 2), yCenter |-> Rat(1, 2), width |-> Rat(1, 5), height |-> Rat(3, 10)]
ExampleFrame == Frame(640, 480)

\* centres on and beyond the frame edges, sizes from a hundredth of the frame to beyond it
GeomCentres == {Rat(k, GridN) : k \in -1 .. GridN + 1}
GeomSizes == {Rat(k, GridN) : k \in 1 .. GridN + 1} \cup {Rat(1, 100)}
GeomRects ==
    {[xCenter |-> xc, yCenter |-> yc, width |-> w, height |-> h] :
        xc \in GeomCentres, yc \in GeomCentres, w \in GeomSizes, h \in GeomSizes}
    \cup {ExampleRect}
GeomFrames == {Frame(1, 1), Frame(3, 2), ExampleFrame}
GeomPaddings == {Num(0), ROI_PADDING, Num(1)}

\* crop-local landmark sets; the landmarker may report points outside the crop
GeomLandmarkSets ==
    { <<Landmark(Num(0), Num(0), Num(0))>>,
      <<[Landmark(Rat(1, 2), Rat(1, 2), Rat(-1, 10))
            EXCEPT !.visibility = Rat(9, 10), !.presence = Rat(1, 2)],
        Landmark(Num(1), Num(1), Undefined)>>,
      <<Landmark(Rat(-1, 4), Rat(5, 4), Num(0)), Landmark(Rat(1, 3), Rat(2, 3), Num(0)),
        Landmark(Num(0), Num(1), Num(0))>> }

GeomInit ==
    \E r \in GeomRects, f \in GeomFrames, p \in GeomPaddings :
        geom = [rect |-> r, frame |-> f, padding |-> p, roi |-> Null,
                local |-> Null, global |-> Null]

\* roi = toPixelRect(rect, width, height, padding)
ApplyToPixelRect ==
    /\ geom.roi = Null
    /\ geom' = [geom EXCEPT !.roi = toPixelRect(geom.rect, geom.frame.width,
                                                geom.frame.height, geom.padding)]

\* global = toNormalizedLandmarks(local, roi, width, height)
ApplyRemap ==
    /\ geom.roi # Null
    /\ geom.global = Null
    /\ \E lm \in GeomLandmarkSets :
          geom' = [geom EXCEPT !.local = lm,
                               !.global = toNormalizedLandmarks(lm, geom.roi,
                                              geom.frame.width, geom.frame.height)]

GeomNext == ApplyToPixelRect \/ ApplyRemap

----------------------------------------------------------------------------
(* Inputs of the sampler specification *)

Pt(x, y) == [x |-> Num(x), y |-> Num(y)]

\* polygons in pixel space, each with a triangulation (triples of vertex numbers) that
\* says which points it contains: the square of side 10 in both orientations, a wedge
\* with a vertex level with its middle, an L, a square with a notch, a diamond, a
\* rectangle that starts left of and above the frame, a triangle with fractional
\* vertices and a triangle far from the origin
Shapes ==
    { [points |-> <<Pt(0, 0), Pt(10, 0), Pt(10, 10), Pt(0, 10)>>,
       triangles |-> {<<1, 2, 3>>, <<1, 3, 4>>}],
      [points |-> <<Pt(0, 10), Pt(10, 10), Pt(10, 0), Pt(0, 0)>>,
       triangles |-> {<<1, 2, 3>>, <<1, 3, 4>>}],
      [points |-> <<Pt(0, 0), Pt(10, 5), Pt(0, 10)>>,
       triangles |-> {<<1, 2, 3>>}],
      [points |-> <<Pt(0, 0), Pt(10, 0), Pt(10, 4), Pt(4, 4), Pt(4, 10), Pt(0, 10)>>,
       triangles |-> {<<1, 2, 3>>, <<1, 3, 4>>, <<1, 4, 6>>, <<4, 5, 6>>}],
      [points |-> <<Pt(0, 0), Pt(5, 5), Pt(10, 0), Pt(10, 10), Pt(0, 10)>>,
       triangles |-> {<<1, 2, 5>>, <<2, 3, 4>>, <<2, 4, 5>>}],
      [points |-> <<Pt(5, 0), Pt(10, 5), Pt(5, 10), Pt(0, 5)>>,
       triangles |-> {<<1, 2, 3>>, <<1, 3, 4>>}],
      [points |-> <<Pt(-3, -2), Pt(5, -2), Pt(5, 4), Pt(-3, 4)>>,
       triangles |-> {<<1, 2, 3>>, <<1, 3, 4>>}],
      [points |-> <<[x |-> Rat(1, 2), y |-> Rat(1, 2)], [x |-> Rat(15, 2), y |-> Num(1)],
                    [x |-> Num(3), y |-> Rat(11, 2)]>>,
       triangles |-> {<<1, 2, 3>>}],
      [points |-> <<Pt(20, 20), Pt(30, 20), Pt(25, 30)>>,
       triangles |-> {<<1, 2, 3>>}] }

UnitSquare == <<Pt(0, 0), Pt(10, 0), Pt(10, 10), Pt(0, 10)>>

\* the points tested: every half pixel from -1 to PipSpan / 2, and (15, 5)
PipSpan == 22
PipCoordinates == {Rat(k, 2) : k \in -2 .. PipSpan}
PipPoints ==
    {[x |-> x, y |-> y] : x \in PipCoordinates, y \in PipCoordinates} \cup {Pt(15, 5)}

\* image data of a frame: width, height and the seed of its bytes
Image(w, h, seed) == [width |-> w, height |-> h, seed |-> seed]
SamplerImages == {Image(1, 1, 37), Image(8, 6, 37), Image(12, 12, 101)}
MaxStep == 3
SamplerSteps == 1 .. MaxStep \cup {DEFAULT_STEP}

\* global landmarks that are, on a 48x16 frame, the corners of the rectangle
\* (-1,-1)..(40,1) and of the rectangle (2.5,2.5)..(33,9)
MergeLandmarks ==
    << Landmark(Rat(-1, 48), Rat(-1, 16), Num(0)), Landmark(Rat(40, 48), Rat(-1, 16), Num(0)),
       Landmark(Rat(40, 48), Rat(1, 16), Num(0)), Landmark(Rat(-1, 48), Rat(1, 16), Num(0)),
       Landmark(Rat(5, 96), Rat(5, 32), Num(0)), Landmark(Rat(33, 48), Rat(5, 32), Num(0)),
       Landmark(Rat(33, 48), Rat(9, 16), Num(0)), Landmark(Rat(5, 96), Rat(9, 16), Num(0)) >>

\* regions as in faceRegions: an id and polygons of landmark indices; two rectangles in
\* both orders, a polygon of two points before a rectangle, one triangle, no polygon
Region(id, polygons) == [id |-> id, polygons |-> polygons]
TwoRectangles == Region("two-rectangles", <<(<<1, 2, 3, 4>>), (<<5, 6, 7, 8>>)>>)
MergeRegions ==
    { TwoRectangles,
      Region("swapped", <<(<<5, 6, 7, 8>>), (<<1, 2, 3, 4>>)>>),
      Region("degenerate-first", <<(<<1, 2>>), (<<5, 6, 7, 8>>)>>),
      Region("triangle", <<(<<1, 3, 7>>)>>),
      Region("empty", <<>>) }
MergeImages == {Image(48, 16, 37), Image(48, 16, 101), Image(24, 8, 37), Image(7, 5, 101)}

SamplerInit ==
    \/ \E shape \in Shapes, pt \in PipPoints :
          geom = [call |-> "pointInPolygon", shape |-> shape, x |-> pt.x, y |-> pt.y,
                  done |-> FALSE, result |-> FALSE]
    \/ \E shape \in Shapes, imageData \in SamplerImages, step \in SamplerSteps :
          geom = [call |-> "sampleRegionPixels", shape |-> shape, imageData |-> imageData,
                  step |-> step, done |-> FALSE, points |-> <<>>, result |-> <<>>]
    \/ \E region \in MergeRegions, imageData \in MergeImages :
          geom = [call |-> "regionMerge", region |-> region, imageData |-> imageData,
                  landmarks |-> MergeLandmarks, done |-> FALSE, chunks |-> <<>>,
                  result |-> <<>>]

\* result = pointInPolygon(x, y, polygon)
ApplyPointInPolygon ==
    /\ geom.call = "pointInPolygon" /\ ~geom.done
    /\ geom' = [geom EXCEPT !.done = TRUE,
                            !.result = pointInPolygon(geom.x, geom.y, geom.shape.points)]

\* result = sampleRegionPixels(imageData, polygon, step), with the points it sampled
ApplySampleRegionPixels ==
    /\ geom.call = "sampleRegionPixels" /\ ~geom.done
    /\ geom' = [geom EXCEPT !.done = TRUE,
                            !.points = sampledPoints(geom.imageData, geom.shape.points, geom.step),
                            !.result = sampleRegionPixels(geom.imageData, geom.shape.points,
                                                          geom.step)]

\* the body of faceRegions.forEach for one region: the per-polygon buffers and the merged
\* buffer handed to the analyzers
ApplyRegionMerge ==
    /\ geom.call = "regionMerge" /\ ~geom.done
    /\ geom' = [geom EXCEPT !.done = TRUE,
                            !.chunks = regionPixelsFrom(geom.imageData, geom.landmarks,
                                                        geom.region.polygons, 1, <<>>),
                            !.result = mergedRegionPixels(geom.imageData, geom.landmarks,
                                                          geom.region)]

SamplerNext == ApplyPointInPolygon \/ ApplySampleRegionPixels \/ ApplyRegionMerge

----------------------------------------------------------------------------
(* The camera hook of src/hooks/useCamera.ts *)

\* calls of start() in a behaviour
MaxStarts == 3

\* the error state null
NoError == "null"
ERR_UNSUPPORTED == "Camera access is not supported in this browser."
ERR_DENIED == "Camera permission was denied. Please allow access and try again."

\* the three useState values of the hook
CamState(status, error, mediaStream) ==
    [status |-> status, error |-> error, stream |-> mediaStream]

\* the hook as constructed:
\*   api       whether navigator.mediaDevices.getUserMedia exists in this browser, once a
\*             start() has looked
\*   st        the React state, with every setState made so far applied
\*   rendered  the state of the last render: the values that start, stop and the cleanup
\*             of that render's effect have closed over
\*   mounted   the component is mounted
\*   calls     start() calls so far
\*   pending   getUserMedia promises not yet settled
\*   tracks    per MediaStream acquired, whether its tracks are live or stopped
\*   afterStop the caller has invoked stop() and not start() since
\*   op        the last operation
CamInitial ==
    [st |-> CamState("idle", NoError, Null), rendered |-> CamState("idle", NoError, Null),
     api |-> "unknown", mounted |-> TRUE, calls |-> 0, pending |-> 0, tracks |-> <<>>,
     afterStop |-> FALSE, op |-> "init"]

\* stop() of a render whose stream was closed: the tracks of that stream are stopped,
\* setStream(null), setStatus("idle")
stopClosure(c, closed) ==
    [c EXCEPT !.tracks = IF closed = Null THEN @ ELSE [@ EXCEPT ![closed.id] = "stopped"],
              !.st = CamState("idle", @.error, Null)]

\* start(): returns the rendered stream while the rendered status is requesting or
\* ready; otherwise sets requesting, clears the error and, where getUserMedia exists,
\* awaits it
start(api) ==
    /\ cam.mounted
    /\ cam.calls < MaxStarts
    /\ cam.api \in {"unknown", api}
    /\ LET c == [cam EXCEPT !.calls = @ + 1, !.afterStop = FALSE] IN
       IF cam.rendered.status \in {"requesting", "ready"}
       THEN cam' = [c EXCEPT !.op = "start-returned"]
       ELSE IF api = "absent"
            THEN cam' = [c EXCEPT !.st = CamState("error", ERR_UNSUPPORTED, @.stream),
                                  !.api = api,
                                  !.op = "start-unsupported"]
            ELSE cam' = [c EXCEPT !.st = CamState("requesting", NoError, @.stream),
                                  !.pending = @ + 1,
                                  !.api = api,
                                  !.op = "start-requested"]

\* getUserMedia resolves with a new stream: setStream(nextStream), setStatus("ready");
\* the setters of an unmounted component change nothing
startResolved ==
    /\ cam.pending > 0
    /\ LET id == Len(cam.tracks) + 1 IN
       cam' = [cam EXCEPT !.pending = @ - 1,
                          !.tracks = Append(@, "live"),
                          !.st = IF cam.mounted THEN CamState("ready", @.error, [id |-> id])
                                 ELSE @,
                          !.op = "resolved"]

\* getUserMedia rejects: setStatus("error"), setError(...)
startRejected ==
    /\ cam.pending > 0
    /\ cam' = [cam EXCEPT !.pending = @ - 1,
                          !.st = IF cam.mounted THEN CamState("error", ERR_DENIED, @.stream)
                                 ELSE @,
                          !.op = "rejected"]

\* the caller invokes the stop of the last render
stop ==
    /\ cam.mounted
    /\ cam' = [stopClosure(cam, cam.rendered.stream) EXCEPT !.afterStop = TRUE, !.op = "stop"]

\* React renders the component with the pending state; when the stream differs from the
\* rendered one, stop is a new callback and the effect of line 42 is replaced: the
\* cleanup of the previous render runs, which calls the stop of that render
ReactRender ==
    /\ cam.mounted
    /\ cam.st # cam.rendered
    /\ LET c == [cam EXCEPT !.rendered = cam.st] IN
       cam' = IF cam.st.stream # cam.rendered.stream
              THEN [stopClosure(c, cam.rendered.stream) EXCEPT !.op = "render-cleanup"]
              ELSE [c EXCEPT !.op = "render"]

\* the component unmounts: the cleanup of the last render's effect runs
unmount ==
    /\ cam.mounted
    /\ cam' = [stopClosure(cam, cam.rendered.stream) EXCEPT !.mounted = FALSE,
                                                           !.op = "unmount"]

CameraNext ==
    \/ \E api \in {"present", "absent"} : start(api)
    \/ startResolved
    \/ startRejected
    \/ stop
    \/ ReactRender
    \/ unmount

----------------------------------------------------------------------------
(* The pipeline coordinator *)

MSG_NO_FACE == "No face detected"
MSG_TRACKING == "Tracking face"
MSG_CAMERA == "Camera active. Looking for a face..."
NoStatus == "null"

Box(xMin, yMin, width, height) ==
    [relativeBoundingBox |-> [xMin |-> xMin, yMin |-> yMin, width |-> width, height |-> height]]

\* results.detections?.[0] ?? null of a stage-1 completion: no detection, a detection
\* without a box, boxes of zero width or height, a box inside the frame, a box
\* narrower than a pixel that crosses the bottom edge, and the box of centre (0.5, 0.5),
\* width 0.3 and height 0.4
PipeDetections ==
    << Null,
       [relativeBoundingBox |-> Null],
       Box(Rat(1, 4), Rat(1, 4), Num(0), Rat(1, 2)),
       Box(Rat(1, 4), Rat(1, 4), Rat(1, 2), Undefined),
       Box(Rat(1, 4), Rat(1, 4), Rat(1, 2), Rat(1, 2)),
       Box(Undefined, Rat(3, 4), Rat(1, 100), Rat(1, 2)),
       Box(Rat(7, 20), Rat(3, 10), Rat(3, 10), Rat(2, 5)) >>

\* results.multiFaceLandmarks?.[0] of a stage-2 completion
PipeLandmarkSets ==
    { Null,
      <<Landmark(Num(0), Num(0), Num(0)), Landmark(Rat(1, 2), Rat(1, 2), Undefined),
        Landmark(Rat(-1, 4), Rat(5, 4), Num(0))>> }

\* the display options held in optionsRef at the time of a render
AllShown == [showBoundingBox |-> TRUE, showFaceMesh |-> TRUE, showRegions |-> TRUE]
NoneShown == [showBoundingBox |-> FALSE, showFaceMesh |-> FALSE, showRegions |-> FALSE]

MaxFrames == 2
MaxRateFrames == 4
MaxE2EFrames == 2
MaxLiveFrames == 3

\* the number of landmarks of a face mesh, all of them at the centre of the crop
MeshPoints == 468
CentredMesh == [i \in 1 .. MeshPoints |-> Landmark(Rat(1, 2), Rat(1, 2), Num(0))]

\* The inputs the environment may hand to the handlers:
\*   sizes       videoWidth x videoHeight of results.image (0 x 0 before the video has data)
\*   detections  indices into PipeDetections
\*   landmarks   stage-2 results
\*   times       readings of performance.now(), in ms
\*   ctx         whether getContext("2d") of the offscreen canvases yields a context
\*   canvas      whether canvasRef.current and its context are there
\*   options     display options
\*   streams     MediaStream objects of the stream prop
\*   frames      number of frames the camera delivers
MainInputs ==
    [sizes |-> {Frame(0, 0), Frame(8, 6)},
     detections |-> 1 .. 6,
     landmarks |-> PipeLandmarkSets,
     times |-> {1700},
     ctx |-> BOOLEAN,
     canvas |-> BOOLEAN,
     options |-> {AllShown, NoneShown},
     streams |-> {[id |-> "s1"]},
     frames |-> MaxFrames]

\* the rate limiter's schedule: every frame has a face and landmarks, every resource is there
RateInputs ==
    [sizes |-> {Frame(8, 6)},
     detections |-> {5},
     landmarks |-> {<<Landmark(Rat(1, 2), Rat(1, 2), Num(0))>>},
     times |-> {0, 200, 999, 1001, 2002},
     ctx |-> {TRUE},
     canvas |-> {TRUE},
     options |-> {AllShown},
     streams |-> {[id |-> "s1"]},
     frames |-> MaxRateFrames]

\* faults: frames without a detection or with a box, stage-2 results without landmarks,
\* with the three landmarks that the regions index and with a single landmark, resources
\* there or missing
FaultInputs ==
    [sizes |-> {Frame(8, 6)},
     detections |-> {1, 5},
     landmarks |-> PipeLandmarkSets \cup {<<Landmark(Rat(1, 2), Rat(1, 2), Num(0))>>},
     times |-> {1700},
     ctx |-> BOOLEAN,
     canvas |-> BOOLEAN,
     options |-> {AllShown, NoneShown},
     streams |-> {[id |-> "s1"]},
     frames |-> MaxFrames]

\* a live frame source: the frames before the last may fail in every expected way (no
\* video data yet, no detection, a box without extent, no landmarks, a missing context or
\* canvas) ...
EarlyInputs ==
    [sizes |-> {Frame(0, 0), Frame(8, 6)},
     detections |-> {1, 3, 5},
     landmarks |-> PipeLandmarkSets,
     times |-> {1700},
     ctx |-> BOOLEAN,
     canvas |-> BOOLEAN,
     options |-> {AllShown},
     streams |-> {[id |-> "s1"]},
     frames |-> MaxLiveFrames]

\* ... and the last frame yields a detection and, from its crop, a landmark set
LateInputs ==
    [sizes |-> {Frame(8, 6)},
     detections |-> {5, 6},
     landmarks |-> PipeLandmarkSets \ {Null},
     times |-> {1700},
     ctx |-> {TRUE},
     canvas |-> BOOLEAN,
     options |-> {AllShown},
     streams |-> {[id |-> "s1"]},
     frames |-> MaxLiveFrames]

\* end to end: frames without a detection or with the box of centre (0.5, 0.5), width
\* 0.3 and height 0.4, stage-2 results without landmarks or with the centred mesh,
\* every resource there
E2EInputs ==
    [sizes |-> {Frame(8, 6), ExampleFrame},
     detections |-> {1, 7},
     landmarks |-> {Null, CentredMesh},
     times |-> {1700},
     ctx |-> {TRUE},
     canvas |-> {TRUE},
     options |-> {AllShown},
     streams |-> {[id |-> "s1"]},
     frames |-> MaxE2EFrames]

Deliver(log, message) ==
    IF Len(log) < 2 THEN Append(log, message) ELSE <<log[2], message>>

\* updateStatus(message), as the new <<statusRef, delivered>>
\* updateStatus that keeps the first status it was given
updateStatus_sticky(message) ==
    IF statusRef # NoStatus THEN <<statusRef, delivered>>
    ELSE <<message, Deliver(delivered, message)>>

updateStatus(message) ==
    IF statusRef = message THEN <<statusRef, delivered>>
    ELSE <<message, Deliver(delivered, message)>>

\* the regions of the pipeline, as faceRegions: polygons of landmark indices
PipeRegions == {Region("zone", <<(<<1, 2, 3>>)>>)}

\* landmarks[index] is a landmark for every index of every polygon of the regions;
\* toPixelPoint(undefined, ...) throws a TypeError otherwise
Resolves(landmarks) ==
    \A region \in PipeRegions : \A i \in DOMAIN region.polygons :
        \A k \in DOMAIN region.polygons[i] : region.polygons[i][k] \in DOMAIN landmarks

\* renderOverlay(): "skipped" when the canvas, its context or the frame size is missing,
\* else "drawn": it then draws rectRef and landmarksRef as the options say; "threw" when
\* drawing the regions reads a landmark that is not there
renderOverlay(canvasOk, frameSize, opts, landmarks) ==
    IF ~canvasOk \/ frameSize = Null THEN "skipped"
    ELSE IF opts.showRegions /\ landmarks # Null /\ ~Resolves(landmarks) THEN "threw"
    ELSE "drawn"

\* the record of a handler run: the detection it was given (an index into PipeDetections,
\* 0 when it takes none), whether the offscreen canvases gave it a 2D context, its
\* outcome, whether it rendered the overlay ("none" when it did not call renderOverlay)
\* and under which display options
Op(op, d, ctx, outcome, render, opts) ==
    [op |-> op, d |-> d, ctx |-> ctx, outcome |-> outcome, render |-> render,
     opts |-> IF render = "drawn" THEN opts ELSE NoneShown]

PipeInit ==
    /\ cam = CamInitial
    /\ mounted = TRUE
    /\ stream = Null
    /\ cameraOn = FALSE
    /\ camBusy = FALSE
    /\ frameCount = 0
    /\ detQueue = <<>>
    /\ meshQueue = <<>>
    /\ rectRef = Null
    /\ roiRef = Null
    /\ landmarksRef = Null
    /\ frameSizeRef = Null
    /\ snapshot = Null
    /\ statusRef = NoStatus
    /\ lastLogRef = 0
    /\ clock = 0
    /\ delivered = <<>>
    /\ tags = [frame |-> 0, lm |-> 0]
    /\ lastOp = Op("init", 0, FALSE, "mounted", "none", NoneShown)
    /\ meshTimes = <<>>
    /\ sampleTimes = <<>>

\* the stream prop changes: the cleanup of the stream effect, then its body
StreamChange(I) ==
    /\ mounted
    /\ \E s \in (I.streams \cup {Null}) \ {stream} :
        /\ stream' = s
        /\ IF s = Null
           THEN /\ cameraOn' = FALSE
                /\ UNCHANGED <<camBusy, detQueue, delivered>>
                /\ lastOp' = Op("stream", 0, FALSE, "stopped", "none", NoneShown)
           ELSE /\ cameraOn' = TRUE
                /\ camBusy' = FALSE
                /\ detQueue' = [i \in DOMAIN detQueue |-> [detQueue[i] EXCEPT !.cur = FALSE]]
                /\ delivered' = Deliver(delivered, MSG_CAMERA)
                /\ lastOp' = Op("stream", 0, FALSE, "started", "none", NoneShown)
    /\ UNCHANGED <<cam, geom, mounted, frameCount, meshQueue, rectRef, roiRef, landmarksRef,
                   frameSizeRef, snapshot, statusRef, lastLogRef, clock, tags,
                   meshTimes, sampleTimes>>

\* Camera onFrame: the running camera hands the next video frame to stage-1 and
\* awaits the call
CameraFrame(I) ==
    /\ cameraOn
    /\ ~camBusy
    /\ frameCount < I.frames
    /\ frameCount' = frameCount + 1
    /\ detQueue' = Append(detQueue, [frame |-> frameCount + 1, cur |-> TRUE])
    /\ camBusy' = TRUE
    /\ lastOp' = Op("frame", 0, FALSE, "sent", "none", NoneShown)
    /\ UNCHANGED <<cam, geom, mounted, stream, cameraOn, meshQueue, rectRef, roiRef,
                   landmarksRef, frameSizeRef, snapshot, statusRef, lastLogRef, clock,
                   delivered, tags, meshTimes, sampleTimes>>

\* whether canvasRef.current and its context are there when a handler renders: the
\* canvas element is detached from canvasRef when the component unmounts
DisplayCanvas(I) == IF mounted THEN I.canvas ELSE {FALSE}

\* faceDetection.onResults for the oldest stage-1 call in flight
Stage1Complete(I) ==
    /\ detQueue # <<>>
    /\ LET call == Head(detQueue) IN
       \E size \in I.sizes, d \in I.detections, ctx \in I.ctx,
          canvasOk \in DisplayCanvas(I), opts \in I.options :
       LET detection == PipeDetections[d]
           rect == IF detection # Null THEN getRelativeBox(detection) ELSE Null
           roi == toPixelRect(rect, size.width, size.height, ROI_PADDING)
       IN
       /\ detQueue' = Tail(detQueue)
       /\ camBusy' = IF call.cur THEN FALSE ELSE camBusy
       /\ IF size.width = 0 \/ size.height = 0
          THEN /\ lastOp' = Op("stage1", d, FALSE, "invalid-frame", "none", NoneShown)
               /\ UNCHANGED <<meshQueue, rectRef, roiRef, landmarksRef, frameSizeRef,
                              snapshot, statusRef, delivered, tags>>
          ELSE /\ frameSizeRef' = size
               /\ snapshot' = IF ctx
                               THEN [frame |-> call.frame, width |-> size.width,
                                     height |-> size.height]
                               ELSE snapshot
               /\ rectRef' = rect
               /\ IF rect = Null
                  THEN /\ roiRef' = Null
                       /\ landmarksRef' = Null
                       /\ statusRef' = updateStatus(MSG_NO_FACE)[1]
                       /\ delivered' = updateStatus(MSG_NO_FACE)[2]
                       /\ tags' = [frame |-> call.frame, lm |-> 0]
                       /\ lastOp' = Op("stage1", d, ctx, "no-face",
                                       renderOverlay(canvasOk, size, opts, Null), opts)
                       /\ UNCHANGED meshQueue
                  ELSE /\ statusRef' = updateStatus(MSG_TRACKING)[1]
                       /\ delivered' = updateStatus(MSG_TRACKING)[2]
                       /\ roiRef' = roi
                       /\ meshQueue' = IF ctx THEN Append(meshQueue, call.frame)
                                        ELSE meshQueue
                       /\ tags' = [tags EXCEPT !.frame = call.frame]
                       /\ lastOp' = Op("stage1", d, ctx,
                                       IF ctx THEN "dispatched" ELSE "not-dispatched",
                                       renderOverlay(canvasOk, size, opts, landmarksRef),
                                       opts)
                       /\ UNCHANGED landmarksRef
    /\ UNCHANGED <<cam, geom, mounted, stream, cameraOn, frameCount, lastLogRef, clock,
                   meshTimes, sampleTimes>>

\* faceMesh.onResults that returns without rendering when it clears the landmarks
Stage2Complete_noRenderOnClear(I) ==
    /\ meshQueue # <<>>
    /\ LET crop == Head(meshQueue) IN
       \E landmarks \in I.landmarks, now \in {t \in I.times : t >= clock},
          ctx \in I.ctx, canvasOk \in DisplayCanvas(I), opts \in I.options :
       LET frame == frameSizeRef
           roi == roiRef
       IN
       /\ meshQueue' = Tail(meshQueue)
       /\ IF landmarks = Null \/ frame = Null \/ roi = Null
          THEN /\ landmarksRef' = Null
               /\ tags' = [tags EXCEPT !.lm = 0]
               /\ lastOp' = Op("stage2", 0, ctx, "cleared", "none", opts)
               /\ UNCHANGED <<lastLogRef, clock, meshTimes, sampleTimes>>
          ELSE LET due == now - lastLogRef > LOG_INTERVAL_MS
                   global == toNormalizedLandmarks(landmarks, roi, frame.width, frame.height)
                   \* the sampling pass throws at the first landmark that is not there,
                   \* before any buffer is handed on and before renderOverlay
                   threw == due /\ ctx /\ ~Resolves(global)
               IN
               /\ landmarksRef' = global
               /\ tags' = [tags EXCEPT !.lm = crop]
               /\ clock' = now
               /\ meshTimes' = Append(meshTimes, now)
               /\ lastLogRef' = IF due THEN now ELSE lastLogRef
               /\ sampleTimes' = IF due /\ ctx /\ ~threw THEN Append(sampleTimes, now)
                                  ELSE sampleTimes
               /\ lastOp' = Op("stage2", 0, ctx,
                               IF ~due THEN "landmarks"
                               ELSE IF ~ctx THEN "sample-skipped"
                               ELSE IF threw THEN "sample-threw" ELSE "sampled",
                               IF threw THEN "none"
                               ELSE renderOverlay(canvasOk, frame, opts, global),
                               opts)
    /\ UNCHANGED <<cam, geom, mounted, stream, cameraOn, camBusy, frameCount, detQueue,
                   rectRef, roiRef, frameSizeRef, snapshot, statusRef, delivered>>

\* faceMesh.onResults for the oldest stage-2 call in flight
\* faceMesh.onResults that drops the ROI when it clears the landmarks
Stage2Complete_clearsRoi(I) ==
    /\ meshQueue # <<>>
    /\ LET crop == Head(meshQueue) IN
       \E landmarks \in I.landmarks, now \in {t \in I.times : t >= clock},
          ctx \in I.ctx, canvasOk \in DisplayCanvas(I), opts \in I.options :
       LET frame == frameSizeRef
           roi == roiRef
       IN
       /\ meshQueue' = Tail(meshQueue)
       /\ IF landmarks = Null \/ frame = Null \/ roi = Null
          THEN /\ landmarksRef' = Null
               /\ roiRef' = Null
               /\ tags' = [tags EXCEPT !.lm = 0]
               /\ lastOp' = Op("stage2", 0, ctx, "cleared",
                               renderOverlay(canvasOk, frame, opts, Null), opts)
               /\ UNCHANGED <<lastLogRef, clock, meshTimes, sampleTimes>>
          ELSE LET due == now - lastLogRef > LOG_INTERVAL_MS
                   global == toNormalizedLandmarks(landmarks, roi, frame.width, frame.height)
                   \* the sampling pass throws at the first landmark that is not there,
                   \* before any buffer is handed on and before renderOverlay
                   threw == due /\ ctx /\ ~Resolves(global)
               IN
               /\ landmarksRef' = global
               /\ UNCHANGED roiRef
               /\ tags' = [tags EXCEPT !.lm = crop]
               /\ clock' = now
               /\ meshTimes' = Append(meshTimes, now)
               /\ lastLogRef' = IF due THEN now ELSE lastLogRef
               /\ sampleTimes' = IF due /\ ctx /\ ~threw THEN Append(sampleTimes, now)
                                  ELSE sampleTimes
               /\ lastOp' = Op("stage2", 0, ctx,
                               IF ~due THEN "landmarks"
                               ELSE IF ~ctx THEN "sample-skipped"
                               ELSE IF threw THEN "sample-threw" ELSE "sampled",
                               IF threw THEN "none"
                               ELSE renderOverlay(canvasOk, frame, opts, global),
                               opts)
    /\ UNCHANGED <<cam, geom, mounted, stream, cameraOn, camBusy, frameCount, detQueue,
                   rectRef, frameSizeRef, snapshot, statusRef, delivered>>

Stage2Complete(I) ==
    /\ meshQueue # <<>>
    /\ LET crop == Head(meshQueue) IN
       \E landmarks \in I.landmarks, now \in {t \in I.times : t >= clock},
          ctx \in I.ctx, canvasOk \in DisplayCanvas(I), opts \in I.options :
       LET frame == frameSizeRef
           roi == roiRef
       IN
       /\ meshQueue' = Tail(meshQueue)
       /\ IF landmarks = Null \/ frame = Null \/ roi = Null
          THEN /\ landmarksRef' = Null
               /\ tags' = [tags EXCEPT !.lm = 0]
               /\ lastOp' = Op("stage2", 0, ctx, "cleared",
                               renderOverlay(canvasOk, frame, opts, Null), opts)
               /\ UNCHANGED <<lastLogRef, clock, meshTimes, sampleTimes>>
          ELSE LET due == now - lastLogRef > LOG_INTERVAL_MS
                   global == toNormalizedLandmarks(landmarks, roi, frame.width, frame.height)
                   \* the sampling pass throws at the first landmark that is not there,
                   \* before any buffer is handed on and before renderOverlay
                   threw == due /\ ctx /\ ~Resolves(global)
               IN
               /\ landmarksRef' = global
               /\ tags' = [tags EXCEPT !.lm = crop]
               /\ clock' = now
               /\ meshTimes' = Append(meshTimes, now)
               /\ lastLogRef' = IF due THEN now ELSE lastLogRef
               /\ sampleTimes' = IF due /\ ctx /\ ~threw THEN Append(sampleTimes, now)
                                  ELSE sampleTimes
               /\ lastOp' = Op("stage2", 0, ctx,
                               IF ~due THEN "landmarks"
                               ELSE IF ~ctx THEN "sample-skipped"
                               ELSE IF threw THEN "sample-threw" ELSE "sampled",
                               IF threw THEN "none"
                               ELSE renderOverlay(canvasOk, frame, opts, global),
                               opts)
    /\ UNCHANGED <<cam, geom, mounted, stream, cameraOn, camBusy, frameCount, detQueue,
                   rectRef, roiRef, frameSizeRef, snapshot, statusRef, delivered>>

\* the cleanups of the stream effect and of the pipeline effect, at unmount
Teardown ==
    /\ mounted
    /\ mounted' = FALSE
    /\ cameraOn' = FALSE
    /\ lastOp' = Op("teardown", 0, FALSE, "closed", "none", NoneShown)
    /\ UNCHANGED <<cam, geom, stream, camBusy, frameCount, detQueue, meshQueue, rectRef,
                   roiRef, landmarksRef, frameSizeRef, snapshot, statusRef, lastLogRef,
                   clock, delivered, tags, meshTimes, sampleTimes>>

Init == PipeInit /\ geom = Null

NextOn(I) ==
    \/ StreamChange(I)
    \/ CameraFrame(I)
    \/ Stage1Complete(I)
    \/ Stage2Complete(I)
    \/ Teardown

Next == NextOn(MainInputs)

Spec == Init /\ [][Next]_vars

\* the rate limiter's schedule
NextRate == NextOn(RateInputs)

SpecRate == Init /\ [][NextRate]_vars

\* the pipeline with faulty inputs
NextFault == NextOn(FaultInputs)

SpecFault == Init /\ [][NextFault]_vars

\* the live frame source: the stream is set once and stays, the component stays mounted;
\* the camera loop asks for the next frame whenever the last onFrame has settled, and the
\* models answer every call
StreamStart == stream = Null /\ StreamChange(EarlyInputs)

Stage1Live ==
    /\ detQueue # <<>>
    /\ IF Head(detQueue).frame < MaxLiveFrames
       THEN Stage1Complete(EarlyInputs) ELSE Stage1Complete(LateInputs)

Stage2Live ==
    /\ meshQueue # <<>>
    /\ IF Head(meshQueue) < MaxLiveFrames
       THEN Stage2Complete(EarlyInputs) ELSE Stage2Complete(LateInputs)

NextLive ==
    \/ StreamStart
    \/ CameraFrame(EarlyInputs)
    \/ Stage1Live
    \/ Stage2Live

SpecLive ==
    /\ Init /\ [][NextLive]_vars
    /\ WF_vars(CameraFrame(EarlyInputs))
    /\ WF_vars(Stage1Live)
    /\ WF_vars(Stage2Live)

\* end to end with the centred mesh
NextE2E == NextOn(E2EInputs)

SpecE2E == Init /\ [][NextE2E]_vars

\* the geometry specification: the pipeline stays as constructed
InitGeom == GeomInit /\ PipeInit

NextGeom ==
    /\ GeomNext
    /\ UNCHANGED <<cam, mounted, stream, cameraOn, camBusy, frameCount, detQueue,
                   meshQueue,
                   rectRef, roiRef, landmarksRef, frameSizeRef, snapshot, statusRef,
                   lastLogRef, clock, delivered, tags, lastOp, meshTimes, sampleTimes>>

SpecGeom == InitGeom /\ [][NextGeom]_vars

\* the sampler specification: the pipeline stays as constructed
InitSampler == SamplerInit /\ PipeInit

NextSampler ==
    /\ SamplerNext
    /\ UNCHANGED <<cam, mounted, stream, cameraOn, camBusy, frameCount, detQueue,
                   meshQueue,
                   rectRef, roiRef, landmarksRef, frameSizeRef, snapshot, statusRef,
                   lastLogRef, clock, delivered, tags, lastOp, meshTimes, sampleTimes>>

SpecSampler == InitSampler /\ [][NextSampler]_vars

\* the camera hook: the pipeline stays as constructed
NextCamera ==
    /\ CameraNext
    /\ UNCHANGED <<geom, mounted, stream, cameraOn, camBusy, frameCount, detQueue,
                   meshQueue, rectRef, roiRef, landmarksRef, frameSizeRef, snapshot,
                   statusRef, lastLogRef, clock, delivered, tags, lastOp, meshTimes,
                   sampleTimes>>

SpecCamera == Init /\ [][NextCamera]_vars

----------------------------------------------------------------------------
(* Claims about the ROI calculator and the remapper, checked under SpecGeom *)

InUnit(r) == RLe(Num(0), r) /\ RLe(r, Num(1))

RectInUnit(rect) ==
    InUnit(rect.xCenter) /\ InUnit(rect.yCenter) /\ InUnit(rect.width) /\ InUnit(rect.height)

C9_AsStated ==
    (geom # Null /\ geom.roi # Null /\ geom.padding = Num(0)
        /\ geom.rect = ExampleRect /\ geom.frame = ExampleFrame)
    => geom.roi = [x |-> 192, y |-> 84, width |-> 128, height |-> 144]

\* the edges of the unpadded box of rect on one axis, clipped to [0, dimension]:
\* <<low, high>> as rationals
UnpaddedEdges(centre, size, dimension) ==
    LET lo == RMul(RSub(centre, RDiv(size, Num(2))), Num(dimension))
        hi == RMul(RAdd(centre, RDiv(size, Num(2))), Num(dimension))
        Clip(v) == IF RLt(v, Num(0)) THEN Num(0)
                   ELSE IF RLt(Num(dimension), v) THEN Num(dimension) ELSE v
    IN  <<Clip(lo), Clip(hi)>>

\* the integer pair <<origin, extent>> is the floor rounding of the edges e: the origin
\* is the last integer at or below the low edge, the extent the last integer at or below
\* the distance of the edges, and at least 1
FloorRounded(origin, extent, e) ==
    LET length == RSub(e[2], e[1]) IN
    /\ RLe(Num(origin), e[1]) /\ RLt(e[1], Num(origin + 1))
    /\ extent >= 1
    /\ IF RLt(length, Num(1)) THEN extent = 1
       ELSE RLe(Num(extent), length) /\ RLt(length, Num(extent + 1))

\* C9, amended: with padding 0 toPixelRect returns the floor-rounded unpadded bounding
\* box (clipped to the frame, width and height at least 1); for rect {xCenter 0.5,
\* yCenter 0.5, width 0.2, height 0.3} on a 640x480 frame that is exactly x=256, y=168,
\* width=128, height=144.
C9_UnpaddedBox ==
    (geom # Null /\ geom.roi # Null /\ geom.padding = Num(0))
    => /\ FloorRounded(geom.roi.x, geom.roi.width,
                       UnpaddedEdges(geom.rect.xCenter, geom.rect.width, geom.frame.width))
       /\ FloorRounded(geom.roi.y, geom.roi.height,
                       UnpaddedEdges(geom.rect.yCenter, geom.rect.height, geom.frame.height))
       /\ (geom.rect = ExampleRect /\ geom.frame = ExampleFrame)
            => geom.roi = [x |-> 256, y |-> 168, width |-> 128, height |-> 144]

\* toPixelRect has been applied to the example rect on the example frame with padding 0
C9_Witness ==
    /\ geom # Null /\ geom.roi # Null /\ geom.padding = Num(0)
    /\ geom.rect = ExampleRect /\ geom.frame = ExampleFrame
    /\ geom.roi.x = 256

\* C10: for every crop-local landmark, ROI and frame size the remapped landmark has
\* x = (roi.x + local.x * roi.width) / frameWidth and
\* y = (roi.y + local.y * roi.height) / frameHeight (compared by cross-multiplication);
\* a local landmark at (0,0) maps to (roi.x / frameWidth, roi.y / frameHeight).
C10_RemapFormula ==
    (geom # Null /\ geom.global # Null)
    => /\ DOMAIN geom.global = DOMAIN geom.local
       /\ \A i \in DOMAIN geom.local :
            LET l == geom.local[i]
                g == geom.global[i]
                roi == geom.roi
            IN  /\ g.x[2] > 0 /\ g.y[2] > 0
                /\ g.x[1] * l.x[2] * geom.frame.width
                     = (roi.x * l.x[2] + l.x[1] * roi.width) * g.x[2]
                /\ g.y[1] * l.y[2] * geom.frame.height
                     = (roi.y * l.y[2] + l.y[1] * roi.height) * g.y[2]
                /\ (l.x = Num(0) /\ l.y = Num(0))
                     => /\ g.x[1] * geom.frame.width = roi.x * g.x[2]
                        /\ g.y[1] * geom.frame.height = roi.y * g.y[2]

\* a landmark at crop-local (0,0) has been remapped with a ROI away from the frame's
\* origin and of different width and height
C10_Witness ==
    /\ geom # Null /\ geom.global # Null
    /\ geom.local[1].x = Num(0) /\ geom.local[1].y = Num(0)
    /\ geom.roi.x > 0 /\ geom.roi.y > 0
    /\ geom.roi.width # geom.roi.height
    /\ geom.frame = ExampleFrame
    /\ geom.global[1].x # Num(0)

\* C11: the remapper is a per-element transform: its output has the length and index
\* order of its input, z, visibility and presence of each landmark pass through
\* unchanged, the input is as it was handed in, and nothing is clamped: a local
\* coordinate below 0 (above 1) yields a global coordinate before the ROI's near edge
\* (beyond its far edge), also when that is outside [0,1].
C11_PureTransform ==
    (geom # Null /\ geom.global # Null)
    => /\ geom.local \in GeomLandmarkSets
       /\ Len(geom.global) = Len(geom.local)
       /\ \A i \in DOMAIN geom.local :
            LET l == geom.local[i]
                g == geom.global[i]
                roi == geom.roi
                left == Rat(roi.x, geom.frame.width)
                right == Rat(roi.x + roi.width, geom.frame.width)
                top == Rat(roi.y, geom.frame.height)
                bottom == Rat(roi.y + roi.height, geom.frame.height)
            IN  /\ g.z = l.z /\ g.visibility = l.visibility /\ g.presence = l.presence
                /\ g = remapLandmark(l, roi, geom.frame.width, geom.frame.height)
                /\ RLt(l.x, Num(0)) => RLt(g.x, left)
                /\ RLt(Num(1), l.x) => RLt(right, g.x)
                /\ RLt(l.y, Num(0)) => RLt(g.y, top)
                /\ RLt(Num(1), l.y) => RLt(bottom, g.y)
                /\ (InUnit(l.x) /\ InUnit(l.y))
                     => (RLe(left, g.x) /\ RLe(g.x, right) /\ RLe(top, g.y) /\ RLe(g.y, bottom))

\* three landmarks have been remapped, the first of them left of and below the crop: it
\* lands outside [0,1] on both axes, and the others keep their places
C11_Witness ==
    /\ geom # Null /\ geom.global # Null
    /\ Len(geom.global) = 3
    /\ RLt(geom.local[1].x, Num(0)) /\ RLt(geom.global[1].x, Num(0))
    /\ RLt(Num(1), geom.local[1].y) /\ RLt(Num(1), geom.global[1].y)
    /\ geom.global[2] # geom.global[3]

----------------------------------------------------------------------------
(* Claims about the polygon sampler, checked under SpecSampler *)

\* twice the signed area of the triangle a, b, p
Cross(a, b, p) ==
    RSub(RMul(RSub(b.x, a.x), RSub(p.y, a.y)), RMul(RSub(b.y, a.y), RSub(p.x, a.x)))

\* p lies on the segment a-b
OnSegment(p, a, b) ==
    /\ Cross(a, b, p) = Num(0)
    /\ RLe(RMin(a.x, b.x), p.x) /\ RLe(p.x, RMax(a.x, b.x))
    /\ RLe(RMin(a.y, b.y), p.y) /\ RLe(p.y, RMax(a.y, b.y))

OnBoundary(p, polygon) ==
    \E i \in DOMAIN polygon :
        OnSegment(p, polygon[i], polygon[IF i = 1 THEN Len(polygon) ELSE i - 1])

\* p lies in the closed triangle a, b, c
InTriangle(p, a, b, c) ==
    LET d1 == Cross(a, b, p)
        d2 == Cross(b, c, p)
        d3 == Cross(c, a, p)
    IN  \/ RLe(Num(0), d1) /\ RLe(Num(0), d2) /\ RLe(Num(0), d3)
        \/ RLe(d1, Num(0)) /\ RLe(d2, Num(0)) /\ RLe(d3, Num(0))

\* p lies in the closed polygon of the shape: in one of the triangles it is made of
InShape(p, shape) ==
    \E t \in shape.triangles :
        InTriangle(p, shape.points[t[1]], shape.points[t[2]], shape.points[t[3]])

\* C13: for every polygon (also with vertices outside the frame), frame size and step
\* >= 1, every pixel that sampleRegionPixels emits is a point of the scan grid that
\* passes pointInPolygon, lies in the polygon and lies in the frame (0 <= x <= width-1,
\* 0 <= y <= height-1), and its four channel reads are inside the pixel buffer; the
\* result holds those four bytes per point and nothing else.
C13_SamplesInsidePolygonAndFrame ==
    (geom # Null /\ geom.call = "sampleRegionPixels" /\ geom.done)
    => LET img == geom.imageData
           box == scanBox(img, geom.shape.points)
       IN  /\ Len(geom.result) = 4 * Len(geom.points)
           /\ \A k \in DOMAIN geom.points :
                LET p == geom.points[k]
                    index == (p.y * img.width + p.x) * 4
                IN  /\ 0 <= p.x /\ p.x <= img.width - 1
                    /\ 0 <= p.y /\ p.y <= img.height - 1
                    /\ p.x >= box.minX /\ (p.x - box.minX) % geom.step = 0
                    /\ p.y >= box.minY /\ (p.y - box.minY) % geom.step = 0
                    /\ pointInPolygon(Num(p.x), Num(p.y), geom.shape.points)
                    /\ InShape(Pt(p.x, p.y), geom.shape)
                    /\ 0 <= index /\ index + 3 < img.width * img.height * 4
                    /\ \A c \in 0 .. 3 :
                         /\ dataAt(img, index + c) >= 0
                         /\ geom.result[4 * (k - 1) + c + 1] = dataAt(img, index + c)

\* the rectangle that starts left of and above the 8x6 frame has been sampled with step
\* 2: six points, the first of them the frame's corner
C13_Witness ==
    /\ geom # Null /\ geom.call = "sampleRegionPixels" /\ geom.done
    /\ geom.shape.points[1] = Pt(-3, -2)
    /\ geom.imageData = Image(8, 6, 37)
    /\ geom.step = 2
    /\ Len(geom.points) = 6
    /\ geom.points[1] = [x |-> 0, y |-> 0]
    /\ Len(geom.result) = 24

\* the grid points of the frame that sampleRegionPixels would find in the polygon
ContainedGridPoints(img, polygon, step) ==
    LET box == scanBox(img, polygon) IN
    { q \in (0 .. img.width - 1) \X (0 .. img.height - 1) :
        /\ box.minX <= q[1] /\ q[1] <= box.maxX /\ (q[1] - box.minX) % step = 0
        /\ box.minY <= q[2] /\ q[2] <= box.maxY /\ (q[2] - box.minY) % step = 0
        /\ pointInPolygon(Num(q[1]), Num(q[2]), polygon) }

\* the pixel-space polygon of polygon i of the region
RegionPolygon(call, i) ==
    [k \in DOMAIN call.region.polygons[i] |->
        toPixelPoint(call.landmarks[call.region.polygons[i][k]], call.imageData.width,
                     call.imageData.height)]

RECURSIVE ContainedSum(_, _)
ContainedSum(call, i) ==
    IF i > Len(call.region.polygons) THEN 0
    ELSE Cardinality(ContainedGridPoints(call.imageData, RegionPolygon(call, i), DEFAULT_STEP))
         + ContainedSum(call, i + 1)

RECURSIVE PolygonBuffers(_, _)
PolygonBuffers(call, i) ==
    IF i > Len(call.region.polygons) THEN <<>>
    ELSE sampleRegionPixels(call.imageData, RegionPolygon(call, i), DEFAULT_STEP)
         \o PolygonBuffers(call, i + 1)

\* C14: for every region the merged sample buffer handed to the analyzers has length
\* 4 x (the sum over the region's polygons of the number of contained grid points) and
\* is the concatenation of the per-polygon sample buffers in polygon order; for the two
\* rectangles that contain 7 and 5 grid points of the 48x16 frame its length is 48.
C14_MergedBuffer ==
    (geom # Null /\ geom.call = "regionMerge" /\ geom.done)
    => /\ Len(geom.result) = 4 * ContainedSum(geom, 1)
       /\ geom.result = PolygonBuffers(geom, 1)
       /\ (geom.region = TwoRectangles /\ geom.imageData.width = 48)
            => /\ Cardinality(ContainedGridPoints(geom.imageData, RegionPolygon(geom, 1),
                                                  DEFAULT_STEP)) = 7
               /\ Cardinality(ContainedGridPoints(geom.imageData, RegionPolygon(geom, 2),
                                                  DEFAULT_STEP)) = 5
               /\ Len(geom.result) = (7 + 5) * 4

\* the region of two rectangles has been merged on the 48x16 frame: two buffers of 28
\* and 20 bytes went into one of 48 that starts with the first and ends with the second
C14_Witness ==
    /\ geom # Null /\ geom.call = "regionMerge" /\ geom.done
    /\ geom.region = TwoRectangles
    /\ geom.imageData = Image(48, 16, 37)
    /\ Len(geom.chunks) = 2
    /\ Len(geom.chunks[1]) = 28 /\ Len(geom.chunks[2]) = 20
    /\ Len(geom.result) = 48
    /\ geom.result[1] = geom.chunks[1][1]
    /\ geom.result[48] = geom.chunks[2][20]
    /\ geom.chunks[1][1] # geom.chunks[2][1]

\* C15: pointInPolygon is the even-odd ray-casting rule: for the square (0,0), (10,0),
\* (10,10), (0,10) it says inside for (5,5) and outside for (15,5), and for every simple
\* polygon and every point not on its boundary its result is the geometric containment
\* of the point, also when the ray to the right passes through a vertex.
C15_EvenOddContainment ==
    (geom # Null /\ geom.call = "pointInPolygon" /\ geom.done)
    => LET p == [x |-> geom.x, y |-> geom.y] IN
       /\ (geom.shape.points = UnitSquare /\ p = Pt(5, 5)) => geom.result = TRUE
       /\ (geom.shape.points = UnitSquare /\ p = Pt(15, 5)) => geom.result = FALSE
       /\ ~OnBoundary(p, geom.shape.points) => (geom.result = InShape(p, geom.shape))

\* the point (5,5) has been found inside the wedge (0,0), (10,5), (0,10): its ray to the
\* right leaves through the vertex (10,5), which two edges share
C15_Witness ==
    /\ geom # Null /\ geom.call = "pointInPolygon" /\ geom.done
    /\ geom.shape.points = <<Pt(0, 0), Pt(10, 5), Pt(0, 10)>>
    /\ geom.x = Num(5) /\ geom.y = Num(5)
    /\ geom.result = TRUE

----------------------------------------------------------------------------
(* Claims about the coordinator *)

\* C2, as stated (under SpecRate): with the last-sample timestamp as constructed, stage-2
\* completions with landmarks at t = 0, 200 and 999 run the sampling pass exactly once,
\* at t = 0, and a further one at t = 1001 runs it a second time.
C2_RateLimiter ==
    /\ (meshTimes = <<0, 200, 999>>) => (sampleTimes = <<0>>)
    /\ (meshTimes = <<0, 200, 999, 1001>>) => (sampleTimes = <<0, 1001>>)

\* C3, as stated: landmarks are non-null only if a ROI and a frame snapshot exist; a
\* stage-1 failure leaves ROI and landmarks cleared and the status off Tracking; and no
\* state has the landmarks cleared by a stage-2 failure while the ROI is still set and
\* the status still reads Tracking.
C3_InvalidatedTogether ==
    /\ (landmarksRef # Null) => (roiRef # Null /\ snapshot # Null)
    /\ (lastOp.op = "stage1" /\ lastOp.outcome = "no-face")
         => (roiRef = Null /\ landmarksRef = Null /\ statusRef # MSG_TRACKING)
    /\ ~(/\ lastOp.op = "stage2" /\ lastOp.outcome = "cleared"
         /\ roiRef # Null
         /\ statusRef = MSG_TRACKING)

\* C4, as stated: at most one stage-1 call and at most one stage-2 call is outstanding,
\* and no stage-1 call is outstanding while a stage-2 call is pending.
C4_OneOutstanding ==
    /\ Len(detQueue) <= 1
    /\ Len(meshQueue) <= 1
    /\ ~(detQueue # <<>> /\ meshQueue # <<>>)

\* C5, as stated: whenever the overlay is drawn with a box and landmarks, or regions are
\* sampled, the box / ROI, the landmarks and the frame snapshot read belong to one frame.
C5_PublishedPerFrame ==
    /\ (/\ lastOp.render = "drawn"
        /\ lastOp.opts.showBoundingBox /\ rectRef # Null
        /\ (lastOp.opts.showRegions \/ lastOp.opts.showFaceMesh) /\ landmarksRef # Null)
         => tags.lm = tags.frame
    /\ (lastOp.op = "stage2" /\ lastOp.outcome = "sampled")
         => (tags.lm = tags.frame /\ snapshot # Null /\ snapshot.frame = tags.lm)

\* C6, as stated: whenever the last emitted status is the Tracking text the global
\* landmarks are non-null, and a stage-2 completion that found nothing does not leave
\* the status at Tracking.
C6_TrackingMeansLandmarks ==
    /\ (statusRef = MSG_TRACKING) => (landmarksRef # Null)
    /\ (lastOp.op = "stage2" /\ lastOp.outcome = "cleared") => (statusRef # MSG_TRACKING)

\* a dimension of a detection box that is zero or missing
NoExtent(v) == v = Undefined \/ v = Num(0)

\* the detection carries a box of non-zero width and height
UsableDetection(detection) ==
    /\ detection # Null
    /\ detection.relativeBoundingBox # Null
    /\ ~NoExtent(detection.relativeBoundingBox.width)
    /\ ~NoExtent(detection.relativeBoundingBox.height)

\* the step is a stage-1 completion
IsStage1Step == detQueue # <<>> /\ detQueue' = Tail(detQueue) /\ lastOp'.op = "stage1"

\* the step clears box, ROI and landmarks, leaves the status at NoFace and dispatches
\* nothing to stage-2
TreatedAsNoDetection ==
    /\ rectRef' = Null /\ roiRef' = Null /\ landmarksRef' = Null
    /\ statusRef' = MSG_NO_FACE
    /\ meshQueue' = meshQueue

\* C7, as stated: every stage-1 completion with no detection, or with a detection whose
\* box is missing or has zero width or height, clears box, ROI and landmarks, emits
\* NoFace and dispatches nothing; every stage-1 completion with a usable box computes a
\* new ROI and dispatches stage-2.
C7_AsStated ==
    [][IsStage1Step =>
        IF UsableDetection(PipeDetections[lastOp'.d])
        THEN /\ roiRef' # Null
             /\ meshQueue' = Append(meshQueue, Head(detQueue).frame)
        ELSE TreatedAsNoDetection]_vars

\* C7, amended: every stage-1 completion on a frame of non-zero width and height with no
\* detection, or with a detection whose box is missing or has zero (or no) width or
\* height, clears box, ROI and landmarks, sets the status to NoFace (handing it to
\* onStatusChange unless NoFace was already the status) and dispatches nothing; every
\* such completion with a usable box computes a new ROI inside the frame and, when the
\* ROI canvas has a 2D context, dispatches stage-2; a completion on a frame of zero width
\* or height changes nothing.
C7_NoDetectionOrDispatch ==
    [][IsStage1Step =>
        IF lastOp'.outcome = "invalid-frame"
        THEN UNCHANGED <<rectRef, roiRef, landmarksRef, frameSizeRef, snapshot, statusRef,
                         delivered, meshQueue>>
        ELSE IF UsableDetection(PipeDetections[lastOp'.d])
        THEN /\ rectRef' # Null
             /\ roiRef' # Null
             /\ roiRef'.width >= 1 /\ roiRef'.height >= 1
             /\ roiRef'.x >= 0 /\ roiRef'.x <= frameSizeRef'.width
             /\ roiRef'.y >= 0 /\ roiRef'.y <= frameSizeRef'.height
             /\ tags'.frame = Head(detQueue).frame
             /\ meshQueue' = IF lastOp'.ctx THEN Append(meshQueue, Head(detQueue).frame)
                              ELSE meshQueue
        ELSE /\ TreatedAsNoDetection
             /\ delivered' = IF statusRef = MSG_NO_FACE THEN delivered
                              ELSE Deliver(delivered, MSG_NO_FACE)]_vars

\* a stage-1 completion with a box of zero width has cleared ROI and landmarks and left
\* NoFace, and one stage-2 call of an earlier frame is still in flight
C7_Witness ==
    /\ lastOp.op = "stage1" /\ lastOp.outcome = "no-face"
    /\ lastOp.d = 3
    /\ roiRef = Null /\ landmarksRef = Null /\ statusRef = MSG_NO_FACE
    /\ meshQueue # <<>>

\* C8, as stated: onStatusChange is never invoked twice in succession with one message.
C8_OnlyOnChange ==
    Len(delivered) = 2 => delivered[1] # delivered[2]

\* the last handler was a stage-2 completion that remapped landmarks
RemappedByStage2 ==
    lastOp.op = "stage2" /\ lastOp.outcome \in {"landmarks", "sampled", "sample-skipped"}

\* the centre of the ROI in normalized frame coordinates
RoiCentre(roi, frame) ==
    [x |-> RDiv(RAdd(Num(roi.x), RDiv(Num(roi.width), Num(2))), Num(frame.width)),
     y |-> RDiv(RAdd(Num(roi.y), RDiv(Num(roi.height), Num(2))), Num(frame.height))]

\* C12 (under SpecE2E): after a frame whose stage-1 result is the box {xCenter 0.5,
\* yCenter 0.5, width 0.3, height 0.4} and whose stage-2 result is 468 landmarks all at
\* crop-local (0.5, 0.5), the ROI is the padded box of that detection, every global
\* landmark equals the ROI's centre ((roi.x + roi.width/2) / frameWidth,
\* (roi.y + roi.height/2) / frameHeight), and the status is the Tracking text; on a
\* 640x480 frame the ROI is x=206, y=126, width=226, height=226 and the landmarks are at
\* (319/640, 239/480).
C12_EndToEnd ==
    RemappedByStage2
    => /\ rectRef = [xCenter |-> Rat(1, 2), yCenter |-> Rat(1, 2),
                     width |-> Rat(3, 10), height |-> Rat(2, 5)]
       /\ roiRef = toPixelRect(rectRef, frameSizeRef.width, frameSizeRef.height, ROI_PADDING)
       /\ Len(landmarksRef) = MeshPoints
       /\ \A i \in DOMAIN landmarksRef :
            /\ landmarksRef[i].x = RoiCentre(roiRef, frameSizeRef).x
            /\ landmarksRef[i].y = RoiCentre(roiRef, frameSizeRef).y
       /\ statusRef = MSG_TRACKING
       /\ frameSizeRef = ExampleFrame
            => /\ roiRef = [x |-> 206, y |-> 126, width |-> 226, height |-> 226]
               /\ landmarksRef[1].x = Rat(319, 640)
               /\ landmarksRef[MeshPoints].y = Rat(239, 480)

\* the first frame, 640x480, has gone through both stages: Tracking was handed to
\* onStatusChange and the 468 landmarks are in place
C12_Witness ==
    /\ RemappedByStage2
    /\ frameCount = 1
    /\ frameSizeRef = ExampleFrame
    /\ tags = [frame |-> 1, lm |-> 1]
    /\ delivered = <<MSG_CAMERA, MSG_TRACKING>>
    /\ landmarksRef # Null /\ Len(landmarksRef) = MeshPoints

\* the step is a stage-2 completion
IsStage2Step == meshQueue # <<>> /\ meshQueue' = Tail(meshQueue) /\ lastOp'.op = "stage2"

\* C16, as stated: a stage-2 completion runs the sampling pass only when
\* now - lastSampleTimestamp > LOG_INTERVAL, so a pass is more than LOG_INTERVAL after
\* the pass before it; a stage-2 completion with landmarks that runs no pass still
\* updates the global landmarks, and every completion that runs no pass leaves
\* lastSampleTimestamp as it was.
C16_SamplingThrottled ==
    [][IsStage2Step =>
        /\ (sampleTimes' # sampleTimes)
             => /\ clock' - lastLogRef > LOG_INTERVAL_MS
                /\ sampleTimes' = Append(sampleTimes, clock')
                /\ lastLogRef' = clock'
                /\ (sampleTimes # <<>>)
                     => clock' - sampleTimes[Len(sampleTimes)] > LOG_INTERVAL_MS
        /\ (sampleTimes' = sampleTimes)
             => /\ lastLogRef' = lastLogRef
                /\ (lastOp'.outcome # "cleared") => landmarksRef' # Null]_vars

\* a handler step calls renderOverlay, which draws when the display canvas is there
EndsWithRender == lastOp'.render \in {"drawn", "skipped"}

C18_IgnoredAfterTeardown ==
    [][~mounted =>
        /\ UNCHANGED <<rectRef, roiRef, landmarksRef, frameSizeRef, snapshot, statusRef,
                       delivered, lastLogRef, sampleTimes>>
        /\ lastOp'.render # "drawn"]_vars

\* C19, as stated: landmarks that a stage-2 completion has remapped come from the crop
\* of the frame whose stage-1 completion wrote the ROI and the frame size they were
\* remapped with; a result for a superseded frame is not applied.
C19_RemappedWithOwnRoi ==
    RemappedByStage2 => tags.lm = tags.frame

\* C20, as stated: after the pipeline effect's cleanup the box, the ROI, the global
\* landmarks, the frame size, the frame snapshot and the last-emitted status are as
\* they were before any frame was processed.
C20_TeardownResets ==
    ~mounted
    => /\ rectRef = Null /\ roiRef = Null /\ landmarksRef = Null
       /\ frameSizeRef = Null /\ snapshot = Null
       /\ statusRef = NoStatus

\* C21, as stated (under SpecFault): no exception leaves a stage-1 or stage-2 completion
\* handler, whether there is no detection, a box without extent, no landmark set, a
\* landmark set that lacks a landmark a region polygon names, or a missing frame buffer
\* or canvas: neither the overlay render nor the sampling pass throws.
C21_NoExceptionEscapes ==
    (lastOp.op \in {"stage1", "stage2"})
    => (lastOp.render # "threw" /\ lastOp.outcome # "sample-threw")

\* every frame has been delivered and answered, and the pipeline holds a ROI and global
\* landmarks of the last frame with the Tracking status
Recovered ==
    /\ frameCount = MaxLiveFrames /\ detQueue = <<>> /\ meshQueue = <<>>
    /\ roiRef # Null /\ landmarksRef # Null
    /\ tags = [frame |-> MaxLiveFrames, lm |-> MaxLiveFrames]
    /\ statusRef = MSG_TRACKING

\* C22 (under SpecLive): no failure is fatal to later frames: once the frame source is
\* live, whatever the earlier frames did (no video data, no detection, stage-2 without
\* landmarks, output skipped for a missing context or canvas), a later frame that yields
\* a detection and a landmark set leads to valid global landmarks with the Tracking
\* status.
C22_NoFailureIsFatal == cameraOn ~> Recovered

\* the pipeline has recovered after a frame without a detection: NoFace was handed to
\* onStatusChange, then Tracking
C22_Witness ==
    /\ Recovered
    /\ delivered = <<MSG_NO_FACE, MSG_TRACKING>>

\* C23 (under Spec): whenever the pipeline holds an ROI, its x, y, width and height are
\* integers and its width and height are at least 1, for every usable box of the
\* detector, a box narrower than a pixel and a box across a frame edge included.
C23_RoiIsIntegerAndNonDegenerate ==
    (roiRef # Null)
    => /\ roiRef.x \in Int /\ roiRef.y \in Int
       /\ roiRef.width \in Int /\ roiRef.height \in Int
       /\ roiRef.width >= 1 /\ roiRef.height >= 1

\* stage-1 has stored the ROI of the box that is 0.08 pixels wide at the left edge and
\* crosses the bottom edge: one pixel wide
C23_Witness ==
    /\ lastOp.op = "stage1" /\ lastOp.d = 6
    /\ roiRef # Null /\ roiRef.width = 1 /\ roiRef.x = 0

\* the padded edges <<low, high>> of an axis before clamping, in pixels:
\* centre -/+ size * (1 + padding) / 2
PaddedEdges(centre, size, dimension, padding) ==
    LET half == RDiv(RMul(RMul(size, Num(dimension)), RAdd(Num(1), padding)), Num(2))
        c == RMul(centre, Num(dimension))
    IN  <<RSub(c, half), RAdd(c, half)>>

\* exactly the low edge, or exactly the high edge, of e is outside [0, dimension]
OnlyLowOutside(e, dimension) ==
    RLt(e[1], Num(0)) /\ RLe(Num(0), e[2]) /\ RLe(e[2], Num(dimension))
OnlyHighOutside(e, dimension) ==
    RLe(Num(0), e[1]) /\ RLe(e[1], Num(dimension)) /\ RLt(Num(dimension), e[2])

\* the clamped edge is on the frame boundary and the opposite edge at the floor of its
\* unclamped position
AsymmetricAsStated(origin, extent, e, dimension) ==
    /\ OnlyLowOutside(e, dimension) => (origin = 0 /\ origin + extent = Floor(e[2]))
    /\ OnlyHighOutside(e, dimension) => (origin = Floor(e[1]) /\ origin + extent = dimension)

\* C24, as stated (under SpecGeom): when exactly one padded edge of an axis falls outside
\* the frame, the rect of toPixelRect has that edge on the frame boundary and the
\* opposite edge at the floor of its unclamped position.
C24_AsStated ==
    (geom # Null /\ geom.roi # Null)
    => /\ AsymmetricAsStated(geom.roi.x, geom.roi.width,
             PaddedEdges(geom.rect.xCenter, geom.rect.width, geom.frame.width, geom.padding),
             geom.frame.width)
       /\ AsymmetricAsStated(geom.roi.y, geom.roi.height,
             PaddedEdges(geom.rect.yCenter, geom.rect.height, geom.frame.height, geom.padding),
             geom.frame.height)

\* the rect starts at the clamped low edge, or at the floor of the unclamped one, and
\* its extent is the floor of the distance from the low edge, not floored, to the other
\* edge, and at least 1; the extent is never the padded size moved back into the frame
AsymmetricCrop(origin, extent, e, dimension) ==
    /\ OnlyLowOutside(e, dimension) => (origin = 0 /\ extent = Max(1, Floor(e[2])))
    /\ OnlyHighOutside(e, dimension)
         => /\ origin = Floor(e[1])
            /\ extent = Max(1, Floor(RSub(Num(dimension), e[1])))
            /\ (e[1] = Num(Floor(e[1])) /\ e[1] # Num(dimension))
                 => origin + extent = dimension
            /\ (e[1] # Num(Floor(e[1])) /\ extent > 1)
                 => origin + extent = dimension - 1

\* C24, amended: toPixelRect clamps edge-wise: when only the low edge of an axis is
\* outside the frame the rect starts at 0 and extends to the floor of the unclamped high
\* edge (at least 1 pixel); when only the high edge is outside it starts at the floor of
\* the unclamped low edge and extends by max(1, floor(dimension - low edge)), which
\* ends on the frame boundary when the low edge is a whole pixel inside the frame and
\* one pixel before it when the low edge is not a whole pixel and the extent exceeds 1;
\* the box is not shifted back into the frame.
C24_EdgeWiseClamp ==
    (geom # Null /\ geom.roi # Null)
    => /\ AsymmetricCrop(geom.roi.x, geom.roi.width,
             PaddedEdges(geom.rect.xCenter, geom.rect.width, geom.frame.width, geom.padding),
             geom.frame.width)
       /\ AsymmetricCrop(geom.roi.y, geom.roi.height,
             PaddedEdges(geom.rect.yCenter, geom.rect.height, geom.frame.height, geom.padding),
             geom.frame.height)

\* toPixelRect has been applied to a box whose padded right edge is at 668.8 of 640 and
\* whose left edge is at 291.2: the rect spans 291 .. 639
C24_Witness ==
    /\ geom # Null /\ geom.roi # Null
    /\ geom.frame = ExampleFrame /\ geom.padding = ROI_PADDING
    /\ geom.rect.xCenter = Rat(3, 4) /\ geom.rect.width = Rat(1, 2)
    /\ geom.roi.x = 291 /\ geom.roi.width = 348

\* the least and the greatest of a set of numbers
Least(values) == CHOOSE v \in values : \A u \in values : RLe(v, u)
Greatest(values) == CHOOSE v \in values : \A u \in values : RLe(u, v)

\* the polygon's integer bounding box, clamped to [0, dimension - 1]: floor of the
\* minima, ceil of the maxima
ClampedBox(img, polygon) ==
    LET xs == {polygon[i].x : i \in DOMAIN polygon}
        ys == {polygon[i].y : i \in DOMAIN polygon}
    IN  [minX |-> ClampInt(Floor(Least(xs)), 0, img.width - 1),
         minY |-> ClampInt(Floor(Least(ys)), 0, img.height - 1),
         maxX |-> ClampInt(Ceil(Greatest(xs)), 0, img.width - 1),
         maxY |-> ClampInt(Ceil(Greatest(ys)), 0, img.height - 1)]

\* the grid points (minX + i * step, minY + j * step) of the box
GridPoints(box, step) ==
    { q \in (box.minX .. box.maxX) \X (box.minY .. box.maxY) :
        (q[1] - box.minX) % step = 0 /\ (q[2] - box.minY) % step = 0 }

\* p comes before q in scan order: an earlier row, or the same row and further left
ScanBefore(p, q) == p.y < q.y \/ (p.y = q.y /\ p.x < q.x)

\* C25: sampleRegionPixels tests exactly the grid points (minX + i*step, minY + j*step)
\* of the polygon's clamped integer bounding box, each once, and emits the contained
\* ones in scan order (rows by increasing y, within a row by increasing x), each with
\* its 4 channel values in pixel-buffer order; with step >= 1 the scan is finite.
C25_ScanOrder ==
    (geom # Null /\ geom.call = "sampleRegionPixels" /\ geom.done)
    => LET img == geom.imageData
           polygon == geom.shape.points
           grid == GridPoints(ClampedBox(img, polygon), geom.step)
           tested == scannedPoints(img, polygon, geom.step)
           emitted == geom.points
       IN  /\ {<<tested[k].x, tested[k].y>> : k \in DOMAIN tested} = grid
           /\ Len(tested) = Cardinality(grid)
           /\ \A k \in 1 .. Len(tested) - 1 : ScanBefore(tested[k], tested[k + 1])
           /\ {<<emitted[k].x, emitted[k].y>> : k \in DOMAIN emitted}
                = {q \in grid : pointInPolygon(Num(q[1]), Num(q[2]), polygon)}
           /\ \A k \in 1 .. Len(emitted) - 1 : ScanBefore(emitted[k], emitted[k + 1])
           /\ Len(geom.result) = 4 * Len(emitted)
           /\ \A k \in DOMAIN emitted : \A c \in 0 .. 3 :
                geom.result[4 * (k - 1) + c + 1]
                  = dataAt(img, (emitted[k].y * img.width + emitted[k].x) * 4 + c)

\* the square of side 10 has been sampled on the 12x12 frame with step 3: the points
\* emitted start with two of the same row and end in a later row
C25_Witness ==
    /\ geom # Null /\ geom.call = "sampleRegionPixels" /\ geom.done
    /\ geom.shape.points = UnitSquare /\ geom.step = 3 /\ geom.imageData.width = 12
    /\ Len(geom.points) >= 4
    /\ geom.points[1].y = geom.points[2].y /\ geom.points[1].x < geom.points[2].x
    /\ geom.points[1].y < geom.points[Len(geom.points)].y

\* C26, as stated (under Spec): after a stage-1 completion on a frame of non-zero size,
\* the message that onStatusChange received last is the one of the pipeline's state,
\* "No face detected" without a usable detection and "Tracking face" with one, also
\* when the stream was replaced in between and "Camera active. Looking for a face..."
\* was delivered.
C26_LastDeliveredMatchesState ==
    (mounted /\ lastOp.op = "stage1" /\ lastOp.outcome # "invalid-frame")
    => /\ delivered # <<>>
       /\ delivered[Len(delivered)] = IF rectRef = Null THEN MSG_NO_FACE ELSE MSG_TRACKING

\* C27 (under Spec): a stage-2 completion writes only the global landmarks and, in a
\* completion whose sampling trigger fires (now - lastSampleTimestamp > LOG_INTERVAL),
\* the last-sample timestamp: it leaves the bounding box, the ROI, the frame size, the
\* frame snapshot and the last-emitted status as they were and calls onStatusChange
\* with nothing; a stage-1 completion leaves the last-sample timestamp as it was.
C27_StageWrites ==
    [][/\ IsStage2Step
           => /\ UNCHANGED <<rectRef, roiRef, frameSizeRef, snapshot, statusRef, delivered>>
              /\ (lastLogRef' # lastLogRef)
                   => /\ clock' - lastLogRef > LOG_INTERVAL_MS
                      /\ lastLogRef' = clock'
                      /\ lastOp'.outcome \notin {"cleared", "landmarks"}
       /\ IsStage1Step => lastLogRef' = lastLogRef]_vars

\* a stage-2 completion has sampled, written the landmarks and the timestamp, and the
\* bounding box, ROI, frame size and status of stage-1 are still there
C27_Witness ==
    /\ lastOp.op = "stage2" /\ lastOp.outcome = "sampled"
    /\ landmarksRef # Null /\ lastLogRef = clock /\ lastLogRef > 0
    /\ rectRef # Null /\ roiRef # Null /\ frameSizeRef # Null /\ snapshot # Null
    /\ statusRef = MSG_TRACKING

----------------------------------------------------------------------------
(* Claims about the camera hook, checked under SpecCamera *)

\* C28, as stated: once start() has obtained a stream, the status is "ready" and the
\* stream is that stream, and a re-render of the mounted component leaves both, and
\* the stream's tracks, as they are: the hook's cleanup effect neither stops nor clears
\* the stream because the stream was set.
C28_ReadyUntilStopped ==
    [][(/\ cam.mounted /\ cam.st.status = "ready" /\ cam.st.stream # Null
        /\ cam'.op \in {"render", "render-cleanup"})
       => (cam'.st = cam.st /\ cam'.tracks = cam.tracks)]_vars

\* C29, as stated: after the caller's stop(), and until the next start() call, the
\* status is "idle", the stream is null and every media track acquired is stopped,
\* also when a getUserMedia request of an earlier start() settles after the stop().
C29_StopIsFinal ==
    cam.afterStop
    => /\ cam.st.status = "idle" /\ cam.st.stream = Null
       /\ \A i \in DOMAIN cam.tracks : cam.tracks[i] = "stopped"

\* C30, as stated: at most one getUserMedia request is outstanding; a start() call made
\* while the status is requesting or ready, rendered or not yet, issues no new request
\* and returns the current stream; a start() from "error" that retries clears the error.
C30_SingleRequest ==
    [][/\ cam'.pending <= 1
       /\ (cam.st.status \in {"requesting", "ready"} /\ cam'.calls = cam.calls + 1)
            => (cam'.pending = cam.pending /\ cam'.op = "start-returned")
       /\ (cam.st.status = "error" /\ cam'.op = "start-requested")
            => cam'.st.error = NoError]_vars

====
